---- MODULE Spec2Model ----
(***************************************************************************)
(* Model of the cinema scraper: SmartController (adaptive rate control     *)
(* under a lock), CinemaScraper.get_cinema_data (paced fetch with retry),  *)
(* CinemaScraper.worker (queue-draining thread), CinemaScraper.run (the    *)
(* orchestrating main thread) and CinemaScraper.save_results.              *)
(*                                                                         *)
(* Units.  request_interval is kept in hundredths of a second (0.3 s is    *)
(* 30) and a multiplication truncates to that grid.  error_count is kept   *)
(* in halves (the code subtracts 0.5), so error_count = 21 stands for      *)
(* 10.5.  wait_time of the forced pause is kept in half seconds, so 110    *)
(* stands for 55 s.  Wall-clock time enters at the one place the code      *)
(* reads it: the test now - last_success_time < 0.5 of line 52, an input   *)
(* of the step, which cannot hold when last_success_time was taken before  *)
(* a forced pause (stale).  slowed records that line 60 has been run.       *)
(***************************************************************************)
EXTENDS Integers, Sequences, FiniteSets

\* ---------------------------------------------------------------- bounds
NumWorkers == 2
EndId == 2
OutageEndId == 7
MaxPeriodicSaves == 1
MaxTimeoutCount == 12

\* ------------------------------------------------------ program constants
InitialInterval == 30
MinInterval == 5
MaxInterval == 500
TimeoutThreshold == 2
ErrorThreshold == 20
MaxPause == 120
retry == 3
StartId == 1

Workers == 1..NumWorkers
Ids == StartId..(IF EndId > OutageEndId THEN EndId ELSE OutageEndId)
NoWorker == 0
NoId == 0
Outcomes == {"data", "empty", "transient", "fatal"}

VARIABLES
    \* SmartController
    request_interval, timeout_count, error_count, stale, lock, wait_time,
    \* one thread each: position, adjust_speed's argument and return point
    pc, success, ret,
    \* get_cinema_data / worker locals
    cinemaid, attempt, delay, exc,
    \* run: arguments, queue, collections, main thread, exported checkpoint
    max_threads, end_id, task_queue, unfinished_tasks, all_cinemas, errors, mainpc, snapshot,
    periodic_saves, final_saves,
    \* history of the run
    hist, interrupted, posts_after_signal, streak, paused_in_streak, slowed

ctlvars == <<request_interval, timeout_count, error_count, stale, lock, wait_time>>
thrvars == <<pc, success, ret>>
fetchvars == <<cinemaid, attempt, delay, exc>>
runvars == <<max_threads, end_id, task_queue, unfinished_tasks, all_cinemas, errors, mainpc, snapshot,
             periodic_saves, final_saves>>
histvars == <<hist, interrupted, posts_after_signal, streak, paused_in_streak, slowed>>
vars == <<ctlvars, thrvars, fetchvars, runvars, histvars>>

Min(a, b) == IF a < b THEN a ELSE b
Max(a, b) == IF a > b THEN a ELSE b

\* ------------------------------------------------- SmartController (pure)
\* the floor of line 53 left out
SpeedUpNoFloor(x) == (x * 9) \div 10
\* line 53: max(0.05, request_interval * 0.9)
SpeedUp(x) == Max(MinInterval, (x * 9) \div 10)
\* line 60: min(5.0, request_interval * 1.5)
SlowDown(x) == Min(MaxInterval, (x * 3) \div 2)
\* line 48: max(0, timeout_count - 1)
DecayTimeout(t) == Max(0, t - 1)
\* line 49: max(0, error_count - 0.5), in halves
DecayError(e) == Max(0, e - 1)
\* error_count raised by 2 for one failure
BumpErrorTwice(e) == e + 4
\* lines 55-56: += 1 (error_count in halves)
BumpTimeout(t) == t + 1
BumpError(e) == e + 2
\* the threshold of line 63 taken one too high
TooManyErrorsLate(e) == e > ErrorThreshold + 2
\* line 63: error_count > 10
TooManyErrors(e) == e > ErrorThreshold
\* line 64: min(60, 5 * error_count), in half seconds
PauseTime(e) == Min(MaxPause, 5 * e)

\* ------------------------------------------------------------ initial state
CtlInit ==
    /\ request_interval = InitialInterval
    /\ timeout_count = 0
    /\ error_count = 0
    /\ stale = FALSE
    /\ lock = NoWorker
    /\ wait_time = 0

HistInit ==
    /\ hist = [i \in Ids |-> <<>>]
    /\ interrupted = FALSE
    /\ posts_after_signal = 0
    /\ streak = 0
    /\ paused_in_streak = FALSE
    /\ slowed = FALSE

RunInit ==
    /\ task_queue = <<>>
    /\ unfinished_tasks = 0
    /\ all_cinemas = <<>>
    /\ errors = <<>>
    /\ mainpc = "seed"
    /\ snapshot = [cinemas |-> <<>>, errors |-> <<>>]
    /\ periodic_saves = 0
    /\ final_saves = 0

FetchInit ==
    /\ cinemaid = [w \in Workers |-> NoId]
    /\ attempt = [w \in Workers |-> 0]
    /\ delay = [w \in Workers |-> 0]
    /\ exc = [w \in Workers |-> "none"]

\* CinemaScraper() constructed, run(start_id, end_id, max_threads) entered
Init ==
    /\ CtlInit /\ HistInit /\ RunInit /\ FetchInit
    /\ max_threads \in Workers
    /\ end_id \in StartId..EndId
    /\ pc = [w \in Workers |-> "idle"]
    /\ success = [w \in Workers |-> TRUE]
    /\ ret = [w \in Workers |-> "none"]

\* SmartController() constructed, threads about to call adjust_speed directly
InitCtl ==
    /\ CtlInit /\ HistInit /\ RunInit /\ FetchInit
    /\ max_threads = NumWorkers
    /\ end_id = EndId
    /\ pc = [w \in Workers |-> "caller"]
    /\ success = [w \in Workers |-> TRUE]
    /\ ret = [w \in Workers |-> "none"]

\* ----------------------------------------------- SmartController.adjust_speed
\* the lock given up for the time of the forced pause
LockFreeOrSleeping == IF lock = NoWorker THEN TRUE ELSE pc[lock] = "adj_sleep"

\* line 45: with self.lock (entry); the caller's return point is kept in ret
LockFree == lock = NoWorker

\* the with block entered without waiting for the lock
AcquireNoLock(w, s, r) ==
    /\ lock' = w
    /\ pc' = [pc EXCEPT ![w] = "adj"]
    /\ success' = [success EXCEPT ![w] = s]
    /\ ret' = [ret EXCEPT ![w] = r]

Acquire(w, s, r) ==
    /\ LockFree
    /\ lock' = w
    /\ pc' = [pc EXCEPT ![w] = "adj"]
    /\ success' = [success EXCEPT ![w] = s]
    /\ ret' = [ret EXCEPT ![w] = r]

\* lines 69-70 and the end of the with block: return request_interval
Return(w, interval) ==
    /\ lock' = NoWorker
    /\ pc' = [pc EXCEPT ![w] = ret[w]]
    /\ ret' = [ret EXCEPT ![w] = "none"]
    /\ delay' = [delay EXCEPT ![w] = IF ret[w] = "post" THEN interval ELSE delay[w]]

\* lines 46-53 and 69-70: adjust_speed(True); quick is the test of line 52
AdjustSuccess(w, quick) ==
    /\ pc[w] = "adj" /\ success[w]
    /\ quick => ~stale
    /\ timeout_count' = DecayTimeout(timeout_count)
    /\ error_count' = DecayError(error_count)
    /\ request_interval' = IF quick THEN SpeedUp(request_interval)
                                    ELSE request_interval
    /\ stale' = FALSE
    /\ streak' = 0
    /\ paused_in_streak' = FALSE
    /\ Return(w, request_interval')
    /\ UNCHANGED <<wait_time, success, cinemaid, attempt, exc, runvars,
                   hist, interrupted, posts_after_signal, slowed>>

\* last_success_time set by a success call only
AdjustFailureNoStamp(w) ==
    /\ pc[w] = "adj" /\ ~success[w]
    /\ timeout_count' = BumpTimeout(timeout_count)
    /\ error_count' = BumpError(error_count)
    /\ request_interval' = IF timeout_count' > TimeoutThreshold
                             THEN SlowDown(request_interval)
                             ELSE request_interval
    /\ slowed' = (slowed \/ timeout_count' > TimeoutThreshold)
    /\ streak' = streak + 1
    /\ IF TooManyErrors(error_count')
         THEN /\ wait_time' = PauseTime(error_count')
              /\ paused_in_streak' = TRUE
              /\ pc' = [pc EXCEPT ![w] = "adj_sleep"]
              /\ UNCHANGED <<stale, lock, ret, delay>>
         ELSE /\ Return(w, request_interval')
              /\ UNCHANGED <<stale, wait_time, paused_in_streak>>
    /\ UNCHANGED <<success, cinemaid, attempt, exc, runvars,
                   hist, interrupted, posts_after_signal>>

\* lines 46, 55-66 and (no pause) 69-70: adjust_speed(False)
AdjustFailure(w) ==
    /\ pc[w] = "adj" /\ ~success[w]
    /\ timeout_count' = BumpTimeout(timeout_count)
    /\ error_count' = BumpError(error_count)
    /\ request_interval' = IF timeout_count' > TimeoutThreshold
                             THEN SlowDown(request_interval)
                             ELSE request_interval
    /\ slowed' = (slowed \/ timeout_count' > TimeoutThreshold)
    /\ streak' = streak + 1
    /\ IF TooManyErrors(error_count')
         THEN /\ wait_time' = PauseTime(error_count')
              /\ paused_in_streak' = TRUE
              /\ pc' = [pc EXCEPT ![w] = "adj_sleep"]
              /\ UNCHANGED <<stale, lock, ret, delay>>
         ELSE /\ stale' = FALSE
              /\ Return(w, request_interval')
              /\ UNCHANGED <<wait_time, paused_in_streak>>
    /\ UNCHANGED <<success, cinemaid, attempt, exc, runvars,
                   hist, interrupted, posts_after_signal>>

\* lines 66-70: time.sleep(wait_time) is over; now was read before the sleep
ErrorAfterPause == 0

PauseOver(w) ==
    /\ pc[w] = "adj_sleep"
    /\ error_count' = ErrorAfterPause
    /\ wait_time' = 0
    /\ stale' = TRUE
    /\ Return(w, request_interval)
    /\ UNCHANGED <<request_interval, timeout_count, success, cinemaid, attempt,
                   exc, runvars, histvars>>

\* ------------------------------------------------ CinemaScraper.save_results
\* the export appended to the earlier one instead of replacing it
save_resultsAppending(prev, cinemas, errs) ==
    [cinemas |-> prev.cinemas \o cinemas, errors |-> prev.errors \o errs]

\* lines 207-234: a collection is exported only when it is not empty
save_results(prev, cinemas, errs) ==
    [cinemas |-> IF cinemas # <<>> THEN cinemas ELSE prev.cinemas,
     errors |-> IF errs # <<>> THEN errs ELSE prev.errors]

\* ---------------------------------------------------- CinemaScraper.worker
\* task_done() left out
task_doneForgotten(n) == n
\* line 149: queue.task_done()
task_done(n) == n - 1

\* lines 142-146: the ErrorRecord (the timestamp is not kept)
ErrorRecord(id, e) == [cinemaid |-> id, error |-> e]
\* line 106: the first row of table0
CinemaRecord(id) == [CinemaID |-> id]

\* the head of the queue read but left in the queue
GetPeeking(w) ==
    /\ pc[w] = "get"
    /\ IF task_queue = <<>>
         THEN /\ pc' = [pc EXCEPT ![w] = "dead"]
              /\ UNCHANGED <<task_queue, cinemaid>>
         ELSE /\ cinemaid' = [cinemaid EXCEPT ![w] = Head(task_queue)]
              /\ task_queue' = task_queue
              /\ pc' = [pc EXCEPT ![w] = "pace"]
    /\ UNCHANGED <<ctlvars, success, ret, attempt, delay, exc, max_threads, end_id,
                   unfinished_tasks, all_cinemas, errors, mainpc, snapshot, periodic_saves,
                   final_saves, histvars>>

\* lines 126-128, 151-152: get_nowait; queue.Empty ends the thread
Get(w) ==
    /\ pc[w] = "get"
    /\ IF task_queue = <<>>
         THEN /\ pc' = [pc EXCEPT ![w] = "dead"]
              /\ UNCHANGED <<task_queue, cinemaid>>
         ELSE /\ cinemaid' = [cinemaid EXCEPT ![w] = Head(task_queue)]
              /\ task_queue' = Tail(task_queue)
              /\ pc' = [pc EXCEPT ![w] = "pace"]
    /\ UNCHANGED <<ctlvars, success, ret, attempt, delay, exc, max_threads, end_id,
                   unfinished_tasks, all_cinemas, errors, mainpc, snapshot, periodic_saves,
                   final_saves, histvars>>

\* lines 132-138, 149: the fetch returned data or None; back to the loop head
Finish(w, cinemas) ==
    /\ all_cinemas' = cinemas
    /\ unfinished_tasks' = task_done(unfinished_tasks)
    /\ pc' = [pc EXCEPT ![w] = "get"]
    /\ cinemaid' = [cinemaid EXCEPT ![w] = NoId]
    /\ attempt' = [attempt EXCEPT ![w] = 0]
    /\ UNCHANGED errors

\* lines 140-149: the fetch raised; one ErrorRecord, back to the loop head
FinishError(w) ==
    /\ errors' = Append(errors, ErrorRecord(cinemaid[w], exc[w]))
    /\ unfinished_tasks' = task_done(unfinished_tasks)
    /\ pc' = [pc EXCEPT ![w] = "get"]
    /\ cinemaid' = [cinemaid EXCEPT ![w] = NoId]
    /\ attempt' = [attempt EXCEPT ![w] = 0]
    /\ UNCHANGED all_cinemas

\* ------------------------------------------- CinemaScraper.get_cinema_data
\* line 89: wait_time = self.controller.adjust_speed(True)
Pace(w) ==
    /\ pc[w] = "pace"
    /\ Acquire(w, TRUE, "post")
    /\ UNCHANGED <<request_interval, timeout_count, error_count, stale, wait_time,
                   fetchvars, runvars, histvars>>

PoolJoined == mainpc \in {"finally", "done"}

\* lines 90-108 and the two except heads: time.sleep(wait_time), then one
\* network attempt and its outcome
Post(w, o) ==
    /\ pc[w] = "post"
    /\ hist' = [hist EXCEPT ![cinemaid[w]] = Append(@, o)]
    /\ posts_after_signal' = IF interrupted /\ ~PoolJoined
                               THEN posts_after_signal + 1
                               ELSE posts_after_signal
    /\ delay' = [delay EXCEPT ![w] = 0]
    /\ CASE o = "data" ->
              /\ Finish(w, Append(all_cinemas, CinemaRecord(cinemaid[w])))
              /\ UNCHANGED exc
         [] o = "empty" ->
              /\ Finish(w, all_cinemas)
              /\ UNCHANGED exc
         [] OTHER ->
              /\ exc' = [exc EXCEPT ![w] = o]
              /\ pc' = [pc EXCEPT ![w] = "report"]
              /\ UNCHANGED <<cinemaid, attempt, all_cinemas, errors,
                             unfinished_tasks>>
    /\ UNCHANGED <<ctlvars, success, ret, max_threads, end_id, task_queue, mainpc,
                   snapshot, periodic_saves, final_saves, interrupted, streak,
                   paused_in_streak, slowed>>

\* the test of line 112 off by one
LastAttemptLate(a) == a = retry
\* line 112: attempt == retry - 1
LastAttempt(a) == a = retry - 1

\* lines 111 and 120: self.controller.adjust_speed(False)
Report(w) ==
    /\ pc[w] = "report"
    /\ Acquire(w, FALSE, "failed")
    /\ UNCHANGED <<request_interval, timeout_count, error_count, stale, wait_time,
                   fetchvars, runvars, histvars>>

\* no inner except in the worker: the exception ends the thread
GiveUpDies(w) ==
    /\ pc' = [pc EXCEPT ![w] = "dead"]
    /\ exc' = [exc EXCEPT ![w] = "none"]
    /\ UNCHANGED <<cinemaid, attempt, all_cinemas, errors, unfinished_tasks>>

\* lines 112-114 and worker lines 140-149: the last attempt failed; raise
GiveUp(w) ==
    /\ FinishError(w)
    /\ exc' = [exc EXCEPT ![w] = "none"]

\* the unexpected error handled like a RequestException before the last attempt
SwallowRetrying(w) ==
    /\ attempt' = [attempt EXCEPT ![w] = attempt[w] + 1]
    /\ exc' = [exc EXCEPT ![w] = "none"]
    /\ pc' = [pc EXCEPT ![w] = "pace"]
    /\ UNCHANGED <<cinemaid, all_cinemas, errors, unfinished_tasks>>

\* the unexpected error re-raised to the worker, which records it
SwallowRecording(w) ==
    /\ FinishError(w)
    /\ exc' = [exc EXCEPT ![w] = "none"]

\* lines 119-122 and worker lines 132-149: an unexpected error; return None
Swallow(w) ==
    /\ Finish(w, all_cinemas)
    /\ exc' = [exc EXCEPT ![w] = "none"]

\* every failed attempt recorded, not only the last
RetryRecording(w) ==
    /\ attempt' = [attempt EXCEPT ![w] = attempt[w] + 1]
    /\ exc' = [exc EXCEPT ![w] = "none"]
    /\ pc' = [pc EXCEPT ![w] = "pace"]
    /\ errors' = Append(errors, ErrorRecord(cinemaid[w], exc[w]))
    /\ UNCHANGED <<cinemaid, all_cinemas, unfinished_tasks>>

\* lines 116-118 and the next round of the for loop: back off, try again
Retry(w) ==
    /\ attempt' = [attempt EXCEPT ![w] = attempt[w] + 1]
    /\ exc' = [exc EXCEPT ![w] = "none"]
    /\ pc' = [pc EXCEPT ![w] = "pace"]
    /\ UNCHANGED <<cinemaid, all_cinemas, errors, unfinished_tasks>>

\* lines 110-122 after adjust_speed(False) has returned
Failed(w) ==
    /\ pc[w] = "failed"
    /\ CASE exc[w] = "fatal" -> Swallow(w)
         [] exc[w] = "transient" /\ LastAttempt(attempt[w]) -> GiveUp(w)
         [] OTHER -> Retry(w)
    /\ UNCHANGED <<ctlvars, success, ret, delay, max_threads, end_id, task_queue,
                   mainpc, snapshot, periodic_saves, final_saves, histvars>>

\* ------------------------------------------------------- CinemaScraper.run
Threads == 1..max_threads
AnyAlive == \E w \in Threads : pc[w] # "dead"

\* lines 156-162: the queue is filled with start_id..end_id
Seed ==
    /\ mainpc = "seed"
    /\ task_queue' = [k \in 1..(end_id - StartId + 1) |-> StartId + k - 1]
    /\ unfinished_tasks' = end_id - StartId + 1
    /\ mainpc' = "start"
    /\ UNCHANGED <<ctlvars, thrvars, fetchvars, max_threads, end_id, all_cinemas,
                   errors, snapshot,
                   periodic_saves, final_saves, histvars>>

\* lines 167-175: the threads are started
StartThreads ==
    /\ mainpc = "start"
    /\ pc' = [w \in Workers |-> IF w \in Threads THEN "get" ELSE "idle"]
    /\ mainpc' = "monitor"
    /\ UNCHANGED <<ctlvars, success, ret, fetchvars, max_threads, end_id, task_queue,
                   unfinished_tasks, all_cinemas, errors, snapshot, periodic_saves, final_saves,
                   histvars>>

\* lines 179-183: a round of the monitor loop that falls on the hour
MonitorSave ==
    /\ mainpc = "monitor"
    /\ AnyAlive
    /\ periodic_saves < MaxPeriodicSaves
    /\ snapshot' = save_results(snapshot, all_cinemas, errors)
    /\ periodic_saves' = periodic_saves + 1
    /\ UNCHANGED <<ctlvars, thrvars, fetchvars, max_threads, end_id, task_queue,
                   unfinished_tasks, all_cinemas, errors, mainpc, final_saves, histvars>>

\* line 179: no thread is alive any more
MonitorExit ==
    /\ mainpc = "monitor"
    /\ ~AnyAlive
    /\ mainpc' = "join"
    /\ UNCHANGED <<ctlvars, thrvars, fetchvars, max_threads, end_id, task_queue,
                   unfinished_tasks, all_cinemas, errors, snapshot, periodic_saves, final_saves,
                   histvars>>

\* line 185: task_queue.join() returns once every task is done
QueueJoin ==
    /\ mainpc = "join"
    /\ unfinished_tasks = 0
    /\ mainpc' = "finally"
    /\ UNCHANGED <<ctlvars, thrvars, fetchvars, max_threads, end_id, task_queue,
                   unfinished_tasks, all_cinemas, errors, snapshot, periodic_saves, final_saves,
                   histvars>>

\* lines 187-188: KeyboardInterrupt reaches the main thread inside the try
Interrupt ==
    /\ mainpc \in {"monitor", "join"}
    /\ mainpc' = "drain"
    /\ interrupted' = TRUE
    /\ UNCHANGED <<ctlvars, thrvars, fetchvars, max_threads, end_id, task_queue,
                   unfinished_tasks, all_cinemas, errors, snapshot, periodic_saves, final_saves,
                   hist, posts_after_signal, streak, paused_in_streak, slowed>>

\* line 189: while not task_queue.empty()
DrainCheck ==
    /\ mainpc = "drain"
    /\ mainpc' = IF task_queue = <<>> THEN "join_threads" ELSE "drain_get"
    /\ UNCHANGED <<ctlvars, thrvars, fetchvars, max_threads, end_id, task_queue,
                   unfinished_tasks, all_cinemas, errors, snapshot, periodic_saves, final_saves,
                   histvars>>

\* line 190: the blocking task_queue.get() waits for an item
GetReady == task_queue # <<>>

\* lines 190-191: task_queue.get(); task_queue.task_done()
DrainGet ==
    /\ mainpc = "drain_get"
    /\ GetReady
    /\ task_queue' = Tail(task_queue)
    /\ unfinished_tasks' = task_done(unfinished_tasks)
    /\ mainpc' = "drain"
    /\ UNCHANGED <<ctlvars, thrvars, fetchvars, max_threads, end_id, all_cinemas,
                   errors, snapshot,
                   periodic_saves, final_saves, histvars>>

\* lines 193-195: t.join(timeout=1) for each thread still alive; it returns
\* after a second whether or not the thread has ended.  posts_after_signal
\* counts from the signal to this point only
JoinThreads ==
    /\ mainpc = "join_threads"
    /\ mainpc' = "finally"
    /\ posts_after_signal' = 0
    /\ UNCHANGED <<ctlvars, thrvars, fetchvars, max_threads, end_id, task_queue,
                   unfinished_tasks, all_cinemas, errors, snapshot, periodic_saves,
                   final_saves, hist, interrupted, streak, paused_in_streak, slowed>>

\* lines 197-199: the finally block
Finally ==
    /\ mainpc = "finally"
    /\ snapshot' = save_results(snapshot, all_cinemas, errors)
    /\ final_saves' = final_saves + 1
    /\ mainpc' = "done"
    /\ UNCHANGED <<ctlvars, thrvars, fetchvars, max_threads, end_id, task_queue,
                   unfinished_tasks, all_cinemas, errors, periodic_saves, histvars>>

\* a step of thread w, and a step of the main thread that is not an input
WorkerStep(w) ==
    \/ Get(w) \/ Pace(w) \/ (\E quick \in BOOLEAN : AdjustSuccess(w, quick))
    \/ AdjustFailure(w) \/ PauseOver(w) \/ (\E o \in Outcomes : Post(w, o))
    \/ Report(w) \/ Failed(w)

MainStep ==
    \/ Seed \/ StartThreads \/ MonitorExit \/ QueueJoin \/ DrainCheck \/ DrainGet
    \/ JoinThreads \/ Finally

\* A run over a short id range, any outcome for any request, an interrupt at
\* any time.  error_count stays below the threshold of line 63 over such a
\* range, so the end of the forced pause is a step of SpecOutage and SpecCtl.
Next ==
    \/ \E w \in Workers : Get(w)
    \/ \E w \in Workers : Pace(w)
    \/ \E w \in Workers, quick \in BOOLEAN : AdjustSuccess(w, quick)
    \/ \E w \in Workers : AdjustFailure(w)
    \/ \E w \in Workers, o \in Outcomes : Post(w, o)
    \/ \E w \in Workers : Report(w)
    \/ \E w \in Workers : Failed(w)
    \/ Seed \/ StartThreads \/ MonitorSave \/ MonitorExit \/ QueueJoin
    \/ Interrupt \/ DrainCheck \/ DrainGet \/ JoinThreads \/ Finally

Spec == Init /\ [][Next]_vars

\* The same run without an interrupt, every thread and the main thread
\* scheduled again and again.
NextNormal ==
    \/ \E w \in Workers : Get(w)
    \/ \E w \in Workers : Pace(w)
    \/ \E w \in Workers, quick \in BOOLEAN : AdjustSuccess(w, quick)
    \/ \E w \in Workers : AdjustFailure(w)
    \/ \E w \in Workers, o \in Outcomes : Post(w, o)
    \/ \E w \in Workers : Report(w)
    \/ \E w \in Workers : Failed(w)
    \/ Seed \/ StartThreads \/ MonitorSave \/ MonitorExit \/ QueueJoin \/ Finally

SpecNormal ==
    /\ Init /\ [][NextNormal]_vars
    /\ \A w \in Workers : WF_vars(WorkerStep(w))
    /\ WF_vars(MainStep)

\* The remote service is down: every request of a longer run fails with a
\* RequestException.
InitOutage ==
    /\ CtlInit /\ HistInit /\ RunInit /\ FetchInit
    /\ max_threads = NumWorkers
    /\ end_id = OutageEndId
    /\ pc = [w \in Workers |-> "idle"]
    /\ success = [w \in Workers |-> TRUE]
    /\ ret = [w \in Workers |-> "none"]

NextOutage ==
    \/ \E w \in Workers : Get(w)
    \/ \E w \in Workers : Pace(w)
    \/ \E w \in Workers, quick \in BOOLEAN : AdjustSuccess(w, quick)
    \/ \E w \in Workers : AdjustFailure(w)
    \/ \E w \in Workers : PauseOver(w)
    \/ \E w \in Workers : Post(w, "transient")
    \/ \E w \in Workers : Report(w)
    \/ \E w \in Workers : Failed(w)
    \/ Seed \/ StartThreads \/ MonitorExit \/ QueueJoin \/ Finally

SpecOutage == InitOutage /\ [][NextOutage]_vars

\* a thread calls controller.adjust_speed(s) directly
Call(w, s) ==
    /\ pc[w] = "caller"
    /\ s \/ timeout_count < MaxTimeoutCount
    /\ Acquire(w, s, "caller")
    /\ UNCHANGED <<request_interval, timeout_count, error_count, stale, wait_time,
                   fetchvars, runvars, histvars>>

NextCtl ==
    \/ \E w \in Workers, s \in BOOLEAN : Call(w, s)
    \/ \E w \in Workers, quick \in BOOLEAN : AdjustSuccess(w, quick)
    \/ \E w \in Workers : AdjustFailure(w)
    \/ \E w \in Workers : PauseOver(w)

SpecCtl == InitCtl /\ [][NextCtl]_vars

\* line 46 against line 69: half a second or more has gone by since
\* last_success_time was set
TimePasses ==
    /\ ~stale
    /\ stale' = TRUE
    /\ UNCHANGED <<request_interval, timeout_count, error_count, lock, wait_time,
                   thrvars, fetchvars, runvars, histvars>>

\* The same calls with the clock in the model: the test of line 52 holds
\* exactly when no half second has gone by since last_success_time was set.
NextClock ==
    \/ \E w \in Workers, s \in BOOLEAN : Call(w, s)
    \/ \E w \in Workers : AdjustSuccess(w, ~stale)
    \/ \E w \in Workers : AdjustFailure(w)
    \/ \E w \in Workers : PauseOver(w)
    \/ TimePasses

SpecClock == InitCtl /\ [][NextClock]_vars

\* ==================================================================== claims

\* --------------------------------------------------------------------- C1
\* C1: whatever adjust_speed(True) / adjust_speed(False) calls the threads
\* make, in whatever interleaving, request_interval stays within [0.05, 5.0]
\* (5..500 hundredths) and timeout_count and error_count are never negative.
C1_IntervalAndCountersInBounds ==
    /\ request_interval >= 5 /\ request_interval <= 500
    /\ timeout_count >= 0
    /\ error_count >= 0

\* the clamps have acted: failures drove the interval to its cap, then
\* successes took both counters back down to zero
C1_Witness ==
    /\ request_interval = 500
    /\ timeout_count = 0
    /\ error_count = 0
    /\ LockFree

\* --------------------------------------------------------------------- C2
\* C2: once 11 or more adjust_speed(False) calls have followed one another
\* with no adjust_speed(True) between them, a pause has been forced during
\* that run of failures; while a pause lasts its duration is
\* min(60, 5 * error_count) (120 half seconds, error_count in halves) of the
\* error_count that triggered it; and the step that ends the pause leaves
\* error_count at 0.
C2_PauseState ==
    /\ streak >= 11 => paused_in_streak
    /\ \A w \in Workers :
          pc[w] = "adj_sleep" =>
             /\ error_count > 20
             /\ wait_time = (IF 5 * error_count < 120 THEN 5 * error_count ELSE 120)

C2_PauseEnd ==
    \A w \in Workers :
       (pc[w] = "adj_sleep" /\ pc'[w] # "adj_sleep") => error_count' = 0

C2_ForcedPause == []C2_PauseState /\ [][C2_PauseEnd]_vars

\* eleven failures in a row, the pause they forced is over
C2_Witness ==
    /\ streak >= 11
    /\ paused_in_streak
    /\ LockFree
    /\ error_count = 0
    /\ stale

\* ------------------------------------------------- vocabulary of C3 .. C10
\* records held for identifier i, and what the requests for i returned
SuccessCount(i) ==
    Cardinality({k \in DOMAIN all_cinemas : all_cinemas[k].CinemaID = i})
ErrorRecords(i) ==
    Cardinality({k \in DOMAIN errors : errors[k].cinemaid = i})
Attempts(i) == Len(hist[i])
LastOutcome(i) == hist[i][Len(hist[i])]
TransientUpTo(i, n) == \A k \in 1..n : hist[i][k] = "transient"
InFlight(i) == \E w \in Workers : cinemaid[w] = i
\* i was dequeued by a worker, fetched, and the worker is through with it
Processed(i) == Attempts(i) > 0 /\ ~InFlight(i)
FailureSeen ==
    \E i \in Ids : \E k \in DOMAIN hist[i] : hist[i][k] \in {"transient", "fatal"}

\* --------------------------------------------------------------------- C3
\* C3: in a run that is not interrupted and in which every request returns
\* data or an empty result, run() reaches its end, and then the success
\* collection holds exactly one record for each identifier of the range whose
\* request returned data, none for any other, and the error collection is
\* empty; for one and for two threads, for every range of the model.
C3_Result ==
    (mainpc = "done" /\ ~FailureSeen) =>
        /\ errors = <<>>
        /\ \A i \in Ids :
              IF i <= end_id
                THEN /\ Attempts(i) = 1
                     /\ SuccessCount(i) = (IF hist[i][1] = "data" THEN 1 ELSE 0)
                ELSE SuccessCount(i) = 0

C3_Terminates == <>(mainpc = "done" \/ FailureSeen)

C3_CleanRun == []C3_Result /\ C3_Terminates

\* two threads, two identifiers, one with data and one without, run ended
C3_Witness ==
    /\ mainpc = "done" /\ ~FailureSeen
    /\ max_threads = 2 /\ end_id = 2
    /\ hist[1] = <<"empty">> /\ hist[2] = <<"data">>
    /\ Len(all_cinemas) = 1

\* --------------------------------------------------------------------- C4
\* C4: an identifier whose requests failed transiently k times, k < 3, and
\* then returned data has exactly one record in the success collection and
\* no ErrorRecord.
C4_RetriedThenData ==
    \A i \in Ids :
       (/\ Processed(i)
        /\ LastOutcome(i) = "data"
        /\ TransientUpTo(i, Attempts(i) - 1))
       => (SuccessCount(i) = 1 /\ ErrorRecords(i) = 0)

\* two transient failures, data on the third attempt
C4_Witness ==
    \E i \in Ids :
       /\ hist[i] = <<"transient", "transient", "data">>
       /\ Processed(i)
       /\ SuccessCount(i) = 1

\* --------------------------------------------------------------------- C5
\* C5: an identifier all of whose requests failed transiently is given up
\* after exactly 3 requests, with exactly one ErrorRecord and no success
\* record; while it is still being fetched it has no ErrorRecord yet.
C5_ExhaustedRetries ==
    \A i \in Ids :
       (Attempts(i) > 0 /\ TransientUpTo(i, Attempts(i))) =>
          IF InFlight(i)
            THEN Attempts(i) <= 3 /\ ErrorRecords(i) = 0 /\ SuccessCount(i) = 0
            ELSE Attempts(i) = 3 /\ ErrorRecords(i) = 1 /\ SuccessCount(i) = 0

C5_Witness ==
    \E i \in Ids :
       /\ hist[i] = <<"transient", "transient", "transient">>
       /\ Processed(i)
       /\ ErrorRecords(i) = 1

\* --------------------------------------------------------------------- C6
\* C6 as stated: every task that ended in a failure, a transient one on the
\* last attempt or a fatal one on any attempt, has exactly one ErrorRecord.
C6_EveryTerminalFailureRecorded ==
    \A i \in Ids :
       (Processed(i) /\ LastOutcome(i) \in {"transient", "fatal"})
       => ErrorRecords(i) = 1

\* C6: a transient failure becomes exactly one ErrorRecord once the 3
\* attempts are used up; a fatal failure ends the fetch on the attempt where
\* it occurs and leaves no ErrorRecord and no success record (it is logged
\* and the fetch returns None, like an empty result).
C6_OnlyExhaustedRetriesRecorded ==
    \A i \in Ids :
       /\ \A k \in DOMAIN hist[i] : hist[i][k] = "fatal" => k = Attempts(i)
       /\ Processed(i) =>
            /\ ErrorRecords(i) = (IF LastOutcome(i) = "transient" THEN 1 ELSE 0)
            /\ LastOutcome(i) = "transient" => Attempts(i) = 3
            /\ LastOutcome(i) = "fatal" => SuccessCount(i) = 0

\* one identifier given up after three transient failures, another ended by
\* a fatal failure on a retry
C6_Witness ==
    \E i, j \in Ids :
       /\ Processed(i) /\ hist[i] = <<"transient", "transient", "transient">>
       /\ ErrorRecords(i) = 1
       /\ Processed(j) /\ hist[j] = <<"transient", "fatal">>
       /\ ErrorRecords(j) = 0

\* --------------------------------------------------------------------- C7
\* C7: run() cannot come to rest before its end: a state in which neither
\* the main thread nor a worker can take a step is one in which run() has
\* finished; the final save of the finally block is taken exactly once
\* before run() finishes, never twice.
C7_FinalSaveExactlyOnce ==
    /\ (ENABLED Next) \/ mainpc = "done"
    /\ final_saves <= 1
    /\ mainpc = "done" => final_saves = 1

\* --------------------------------------------------------------------- C8
\* C8: between the interrupt and the end of the join loop the workers issue
\* at most max_threads * 3 requests.
C8_BoundedAttemptsAfterSignal ==
    posts_after_signal <= max_threads * 3

\* --------------------------------------------------------------------- C9
\* C9: a step that takes a checkpoint, periodic or final, leaves the success
\* and the error collection as they were, exports exactly their contents,
\* and exports the same as the checkpoint before when nothing was appended
\* in between.
C9_Step ==
    (periodic_saves' + final_saves' # periodic_saves + final_saves) =>
        /\ all_cinemas' = all_cinemas
        /\ errors' = errors
        /\ snapshot' = [cinemas |-> all_cinemas, errors |-> errors]
        /\ (snapshot = [cinemas |-> all_cinemas, errors |-> errors]
              => snapshot' = snapshot)

C9_CheckpointOnlyReads == [][C9_Step]_vars

\* the periodic and the final checkpoint taken, records of both kinds held
C9_Witness ==
    /\ periodic_saves = 1 /\ final_saves = 1
    /\ Len(all_cinemas) = 1 /\ Len(errors) = 1
    /\ snapshot = [cinemas |-> all_cinemas, errors |-> errors]

\* -------------------------------------------------------------------- C10
\* a thread ends only at the head of its loop, on an empty queue, and a
\* thread that leaves the failure path is back in its loop
C10_KeepsWorker ==
    \A w \in Workers :
       /\ (pc[w] # "dead" /\ pc'[w] = "dead") => (pc[w] = "get" /\ task_queue = <<>>)
       /\ (pc[w] = "failed" /\ pc'[w] # "failed") => pc'[w] \in {"get", "pace"}

\* at the end of an uninterrupted run every identifier of the range was
\* fetched and is recorded as its last outcome demands
C10_OthersRecorded ==
    (mainpc = "done" /\ ~interrupted) =>
        \A i \in StartId..end_id :
           /\ Processed(i)
           /\ SuccessCount(i) = (IF LastOutcome(i) = "data" THEN 1 ELSE 0)
           /\ ErrorRecords(i) = (IF LastOutcome(i) = "transient" THEN 1 ELSE 0)

\* no worker stands at the lock of the rate controller while the failure
\* report of another identifier sleeps through the forced pause inside it
C10_NoWait ==
    \A w, v \in Workers :
       ~(/\ pc[v] = "adj_sleep"
         /\ pc[w] \in {"pace", "report"}
         /\ cinemaid[w] # cinemaid[v])

\* a worker that cannot enter adjust_speed is kept out by a thread inside it
C10_WaitsOnlyForController ==
    \A w \in Workers :
       (pc[w] \in {"pace", "report"} /\ ~LockFree) =>
           pc[lock] \in {"adj", "adj_sleep"}

\* C10 as stated: a failure never ends its worker, never keeps another
\* identifier from being fetched and recorded, and never makes a worker that
\* is processing another identifier wait.
C10_FullyIsolated ==
    [](C10_OthersRecorded /\ C10_NoWait) /\ [][C10_KeepsWorker]_vars

\* C10: a failure never ends its worker and never keeps another identifier
\* from being fetched and recorded; a worker processing another identifier
\* waits for it only at the lock of the rate controller (which the failure
\* report holds through the forced pause when it takes error_count above 10).
C10_IsolatedButForController ==
    [](C10_OthersRecorded /\ C10_WaitsOnlyForController) /\ [][C10_KeepsWorker]_vars

\* a failure report sleeps in the forced pause, holding the lock, while the
\* other worker, on another identifier, stands at the lock
C10_Witness ==
    \E w, v \in Workers :
       /\ pc[v] = "adj_sleep" /\ lock = v /\ wait_time >= 105
       /\ pc[w] = "pace"
       /\ cinemaid[w] # cinemaid[v]

\* -------------------------------------------------------------------- C11
\* C11 as stated: for every request, the worker has slept the delay the rate
\* controller returned to it before the request is issued; when the request
\* completes the worker goes to report its outcome to the rate controller
\* before the fetch returns or retries; and what it reports is the outcome of
\* that request (success exactly when no exception was raised).
C11_Step ==
    \A w \in Workers :
       /\ (pc[w] = "adj" /\ pc'[w] = "post") => delay'[w] = request_interval'
       /\ (pc[w] = "post" /\ pc'[w] # "post") => pc'[w] = "report"
       /\ (pc[w] = "report" /\ pc'[w] = "adj") => success'[w] = (exc[w] = "none")

C11_PacedThenOutcomeReported == [][C11_Step]_vars

\* -------------------------------------------------------------------- C12
\* C12: for every identifier at most 3 requests are made; every request but
\* the last one made for it failed transiently, so data, an empty result or a
\* fatal failure is never followed by another request; data or an empty
\* result ends the fetch in the step that receives it; and an identifier
\* whose fetch ended with an empty result has neither a success record nor an
\* ErrorRecord.
C12_RetryOnlyAfterTransient ==
    \A i \in Ids :
       /\ Attempts(i) <= 3
       /\ \A k \in 1..(Attempts(i) - 1) : hist[i][k] = "transient"
       /\ (Attempts(i) > 0 /\ LastOutcome(i) \in {"data", "empty"}) => ~InFlight(i)
       /\ (Processed(i) /\ LastOutcome(i) = "empty")
             => (SuccessCount(i) = 0 /\ ErrorRecords(i) = 0)

\* one fetch retried once and ended by an empty result, another ended by a
\* fatal failure on its first request
C12_Witness ==
    \E i, j \in Ids :
       /\ Processed(i) /\ hist[i] = <<"transient", "empty">>
       /\ SuccessCount(i) = 0 /\ ErrorRecords(i) = 0
       /\ Processed(j) /\ hist[j] = <<"fatal">>

\* -------------------------------------------------------------------- C13
\* thread w is inside the with block of adjust_speed
Inside(w) == pc[w] \in {"adj", "adj_sleep"}

\* at most one thread is inside adjust_speed, and it is the holder of the lock
C13_OneInside ==
    /\ Cardinality({w \in Workers : Inside(w)}) <= 1
    /\ \A w \in Workers : Inside(w) <=> lock = w

\* a step that changes timeout_count, error_count, request_interval or
\* last_success_time is a step of the one thread inside, and it is the whole
\* effect of that thread's call on the state the call found: of a success
\* call, of a failure call, or of the end of the pause a failure call forced
C13_Step ==
    (<<request_interval, timeout_count, error_count, stale>>' #
     <<request_interval, timeout_count, error_count, stale>>) =>
        /\ lock \in Workers
        /\ Inside(lock)
        /\ pc'[lock] # pc[lock]
        /\ \A v \in Workers : v # lock => (pc'[v] = pc[v] /\ ~Inside(v))
        /\ \/ /\ pc[lock] = "adj" /\ success[lock]
              /\ timeout_count' = (IF timeout_count > 0 THEN timeout_count - 1 ELSE 0)
              /\ error_count' = (IF error_count > 0 THEN error_count - 1 ELSE 0)
              /\ request_interval' \in
                    {request_interval,
                     IF (request_interval * 9) \div 10 > 5
                       THEN (request_interval * 9) \div 10 ELSE 5}
           \/ /\ pc[lock] = "adj" /\ ~success[lock]
              /\ timeout_count' = timeout_count + 1
              /\ error_count' = error_count + 2
              /\ request_interval' =
                    (IF timeout_count + 1 > 2
                       THEN (IF (request_interval * 3) \div 2 < 500
                               THEN (request_interval * 3) \div 2 ELSE 500)
                       ELSE request_interval)
           \/ /\ pc[lock] = "adj_sleep"
              /\ error_count' = 0
              /\ timeout_count' = timeout_count
              /\ request_interval' = request_interval

\* C13: at most one thread at a time is inside adjust_speed, and every change
\* of the controller's state is the complete read-modify-write of one call
\* made by that thread, so the calls take effect one after another.
C13_SerialUpdates == []C13_OneInside /\ [][C13_Step]_vars

\* one thread sleeps in the forced pause, holding the lock, after calls of
\* both kinds; every other thread is outside
C13_Witness ==
    \E w \in Workers :
       /\ pc[w] = "adj_sleep" /\ lock = w
       /\ error_count = 21
       /\ \A v \in Workers : v # w => pc[v] = "caller"

\* -------------------------------------------------------------------- C14
\* a forced pause is in progress before and after the step
C14_PauseGoesOn == \E v \in Workers : pc[v] = "adj_sleep" /\ pc'[v] = "adj_sleep"

\* while the pause goes on the controller's state stays as it is, no thread
\* enters adjust_speed, and so no thread at the pacing call of line 89 or at
\* the failure report gets past it
C14_WhilePausing ==
    C14_PauseGoesOn =>
        /\ <<request_interval, timeout_count, error_count, stale>>' =
           <<request_interval, timeout_count, error_count, stale>>
        /\ \A w \in Workers :
              /\ pc'[w] = "adj" => pc[w] = "adj"
              /\ pc[w] = "pace" => pc'[w] = "pace"
              /\ pc[w] = "report" => pc'[w] = "report"

\* error_count falls to 0 from more than one half only in the step that ends
\* a pause, and that step does set it to 0
C14_ResetStep ==
    /\ (error_count' = 0 /\ error_count > 1) =>
          \E v \in Workers : pc[v] = "adj_sleep" /\ pc'[v] # "adj_sleep"
    /\ \A v \in Workers :
          (pc[v] = "adj_sleep" /\ pc'[v] # "adj_sleep") => error_count' = 0

\* during the pause the sleeper holds the lock and error_count still has the
\* value above 10 that triggered the pause
C14_NotResetYet ==
    \A v \in Workers :
       pc[v] = "adj_sleep" => (lock = v /\ error_count > 20)

\* C14: while a forced pause is in progress no other worker completes an
\* update of the rate controller and none starts the pacing of a request;
\* error_count is reset to 0 when the pause ends, not before and not during.
C14_PauseBlocksAll ==
    []C14_NotResetYet /\ [][C14_WhilePausing /\ C14_ResetStep]_vars

\* the pause is over and has reset error_count; a worker that stood at its
\* pacing call for a retry can go on
C14_Witness ==
    /\ LockFree /\ stale /\ error_count = 0 /\ paused_in_streak
    /\ \E w \in Workers : pc[w] = "pace" /\ attempt[w] > 0

\* -------------------------------------------------------------------- C15
\* requests that have failed so far, and: each of them has been reported
FailedAttempts ==
    Cardinality({p \in Ids \X (1..retry) :
                    /\ p[2] <= Len(hist[p[1]])
                    /\ hist[p[1]][p[2]] \in {"transient", "fatal"}})
AllReported ==
    \A w \in Workers :
       /\ pc[w] \notin {"report", "failed", "adj_sleep"}
       /\ pc[w] = "adj" => success[w]

\* C15: in a run in which every request fails, once 9 requests have failed and
\* been reported, timeout_count has been above 2 and the interval has been
\* grown by line 60 at least once.
C15_ReactsWithinNineFailures ==
    (FailedAttempts >= 9 /\ AllReported /\ \A i \in Ids : TransientUpTo(i, Attempts(i)))
        => slowed

\* -------------------------------------------------------------------- C16
\* C16: every adjust_speed call that returns without a pause, success or
\* failure, leaves last_success_time at the time of the call (not stale); a
\* call that paused leaves it at the time it read before the pause, at least
\* 52.5 s back (stale); and a success call multiplies the interval by 0.9,
\* not below 0.05, exactly when less than half a second has gone by since
\* last_success_time was set, and leaves it as it is otherwise.
C16_Step ==
    \A w \in Workers :
       /\ (pc[w] = "adj" /\ pc'[w] \notin {"adj", "adj_sleep"}) => ~stale'
       /\ (pc[w] = "adj_sleep" /\ pc'[w] # "adj_sleep") => stale'
       /\ (pc[w] = "adj" /\ success[w] /\ pc'[w] # "adj") =>
             request_interval' =
                (IF ~stale
                   THEN (IF (request_interval * 9) \div 10 > 5
                           THEN (request_interval * 9) \div 10 ELSE 5)
                   ELSE request_interval)

C17_Step ==
    interrupted =>
        \A w \in Workers :
           /\ cinemaid'[w] # cinemaid[w] => cinemaid'[w] = NoId
           /\ (pc[w] # "dead" /\ pc'[w] = "dead") => pc[w] = "get"

C17_NoDispatchAfterSignal == [][C17_Step]_vars

\* -------------------------------------------------------------------- C18
\* positions of identifier i in the queue
QueuedAt(i) == {k \in DOMAIN task_queue : task_queue[k] = i}

\* each identifier is in the queue at most once, or with at most one worker,
\* or through; one that is still queued was never fetched; and no identifier
\* has more than one entry in the two collections together
C18_OncePerId ==
    \A i \in Ids :
       /\ Cardinality(QueuedAt(i)) <= 1
       /\ Cardinality({w \in Workers : cinemaid[w] = i}) <= 1
       /\ QueuedAt(i) # {} =>
             (~InFlight(i) /\ Attempts(i) = 0 /\ SuccessCount(i) + ErrorRecords(i) = 0)
       /\ SuccessCount(i) + ErrorRecords(i) <= 1
       /\ i > end_id => (Attempts(i) = 0 /\ ~InFlight(i) /\ QueuedAt(i) = {})

\* after seeding the queue only ever loses its head
C18_NeverRefilled ==
    mainpc # "seed" =>
        \/ task_queue' = task_queue
        \/ task_queue # <<>> /\ task_queue' = Tail(task_queue)

\* at the end of a run that was not interrupted the queue is empty and every
\* identifier of the range went through exactly one fetch
C18_AllProcessed ==
    (mainpc = "done" /\ ~interrupted) =>
        /\ task_queue = <<>>
        /\ \A i \in StartId..end_id :
              /\ Processed(i)
              /\ Attempts(i) <= 3
              /\ \A k \in 1..(Attempts(i) - 1) : hist[i][k] = "transient"

\* C18: every identifier of the range is dequeued at most once and by at most
\* one worker, the queue is never refilled after seeding, no identifier has
\* more than one entry across the success and the error collection, and on
\* normal completion every identifier was dequeued and processed exactly once.
C18_EachIdOnce ==
    [](C18_OncePerId /\ C18_AllProcessed) /\ [][C18_NeverRefilled]_vars

\* two threads have worked off two identifiers, one into each collection
C18_Witness ==
    /\ mainpc = "done" /\ ~interrupted
    /\ max_threads = 2 /\ end_id = 2
    /\ SuccessCount(1) = 1 /\ ErrorRecords(2) = 1

\* -------------------------------------------------------------------- C19
\* C19: whenever no thread is inside adjust_speed error_count is at most 10
\* (20 halves); during a forced pause error_count is 10.5 or 11 (21 or 22
\* halves) and the pause lasts 52.5 or 55 s (105 or 110 half seconds), never
\* the 60 s of the cap.
C19_PauseIsNeverCapped ==
    /\ LockFree => error_count <= 20
    /\ \A w \in Workers :
          /\ pc[w] = "adj" => error_count <= 20
          /\ pc[w] = "adj_sleep" =>
                /\ error_count \in {21, 22}
                /\ wait_time \in {105, 110}
                /\ wait_time = 5 * error_count

\* a pause of 52.5 s: error_count stood at 9.5 when the failure came in
C19_Witness ==
    \E w \in Workers :
       /\ pc[w] = "adj_sleep"
       /\ wait_time = 105
       /\ timeout_count > 2

\* -------------------------------------------------------------------- C20
\* C20: once the final save of the finally block has been taken every worker
\* thread has ended, and the exported checkpoint holds every record of the
\* success and of the error collection; after a normal completion and after
\* an interrupt alike.
C20_FinalCheckpointComplete ==
    final_saves >= 1 =>
        /\ \A w \in Threads : pc[w] = "dead"
        /\ all_cinemas # <<>> => snapshot.cinemas = all_cinemas
        /\ errors # <<>> => snapshot.errors = errors
====
